---- MODULE Spec2Model ----
(***************************************************************************)
(* Model of tools/puf-challenge-generator/pufchallenge.py: the hex codec,  *)
(* the stability analysis, the masked extraction and the orchestrator      *)
(* main().  Strings are sequences of characters; a bytearray is a sequence  *)
(* of integers 0..255; a raised exception is a result record whose exc     *)
(* field names it.  A character is written as the one-character string it  *)
(* is when it is printable ASCII or one of \t \n \r \f, and by its code    *)
(* point otherwise: "U+000B" is the vertical tab, "U+0663" the             *)
(* ARABIC-INDIC DIGIT THREE.                                               *)
(***************************************************************************)
EXTENDS Integers, Sequences, FiniteSets

VARIABLES
    file,                 \* the lines of the input file (argument -i)
    open_error,           \* what reading the input file raises, "none" otherwise
    reopen_file,          \* the lines line 140 finds when it opens the file again
    reopen_error,         \* what that second reading raises, "none" otherwise
    challenge_size,       \* args.challenge_size
    verbose,              \* args.verbose
    pc,                   \* the step main() is about to run
    hex_codes,            \* main: hex_codes
    stable_bits,          \* main: stable_bits
    warned,               \* main: the [WARNING] line of line 133 was printed
    binary_challenge,     \* main: binary_challenge
    ram_buffer_binary,    \* main: ram_buffer_binary
    extracted_bytearray,  \* main: extracted_bytearray
    pbkdf2_hash,          \* main: pbkdf2_hash, <<>> until derived
    output,               \* the result values printed, in order
    debug_out,            \* the [DEBUG] values printed under -v, in order
    stdout_error,         \* what the print that failed raised, "none" otherwise
    error,                \* what ended the run early, "none" otherwise
    done_steps,           \* the steps that have completed, in order
    ex_challenge,         \* extraction call: binary_challenge
    ex_reference,         \* extraction call: ram_buffer_binary
    ex_result,            \* extraction call: the result
    cd_hex,               \* codec round trip: the hex string
    cd_result,            \* codec round trip: the re-encoded string
    st_codes,             \* growing measurement set: hex_codes
    st_mask               \* growing measurement set: find_stable_bits(hex_codes)

run_vars == <<file, open_error, reopen_file, reopen_error, challenge_size, verbose, pc, hex_codes, stable_bits, warned,
              binary_challenge, ram_buffer_binary, extracted_bytearray,
              pbkdf2_hash, output, debug_out, stdout_error, error, done_steps>>
ex_vars == <<ex_challenge, ex_reference, ex_result>>
cd_vars == <<cd_hex, cd_result>>
st_vars == <<st_codes, st_mask>>
vars == <<run_vars, ex_vars, cd_vars, st_vars>>

----------------------------------------------------------------------------
(* Bounds of the model *)

MaxLines == 3        \* lines in the input file
MaxMixedLines == 2   \* lines in an input file that draws on every line of the pool
MaxSize == 5         \* largest --challenge-size tried
MaxChalLen == 9      \* longest challenge of a direct extraction call
MaxCodecLen == 2     \* longest hex string of a codec round trip
MaxMeasurements == 4 \* largest measurement set grown by appending

\* The lines an input file is made of: a blank line, measurements of one and
\* two hex characters (upper and lower case, with whitespace str.strip()
\* removes), a line int() refuses and lines that are no hex strings but that
\* int() accepts (a sign, a base prefix, a Unicode digit).
LinePool ==
    { <<>>,
      <<"F">>, <<"D">>, <<"U+0663">>,
      <<"F","0">>, <<"D","0">>, <<"0","F">>, <<"f","0","U+00A0">>,
      <<"G">>, <<"-","F">>, <<"0","x","F","0">> }

\* The lines of the longer input files: a blank line and the measurements
\* that are hex strings of upper-case digits.
PlainLinePool ==
    { <<>>, <<"F">>, <<"D">>, <<"F","0">>, <<"D","0">>, <<"0","F">> }

\* The reference measurements of a direct extraction call: hex strings, and
\* a signed one, whose decoding is no bit-sequence.
RefPool ==
    { <<"A">>, <<"F">>, <<"5","A">>, <<"C","3">>, <<"5","A","F">>, <<"3","C","9">>,
      <<"-","F">> }

LowerHex == <<"0","1","2","3","4","5","6","7","8","9","a","b","c","d","e","f">>
UpperHex == <<"0","1","2","3","4","5","6","7","8","9","A","B","C","D","E","F">>
HexChars == {LowerHex[i] : i \in 1..16} \cup {UpperHex[i] : i \in 1..16}

----------------------------------------------------------------------------
(* Python results and built-ins *)

Return(v) == [exc |-> "none", val |-> v]
Raise(e) == [exc |-> e, val |-> <<>>]

\* The decimal digits of Unicode 14.0 (the database of the interpreter) that
\* are not ASCII: one row per script, the digits 0..9 in order.
UnicodeDigits ==
    <<
       <<"U+0660", "U+0661", "U+0662", "U+0663", "U+0664", "U+0665", "U+0666", "U+0667", "U+0668", "U+0669">>,
       <<"U+06F0", "U+06F1", "U+06F2", "U+06F3", "U+06F4", "U+06F5", "U+06F6", "U+06F7", "U+06F8", "U+06F9">>,
       <<"U+07C0", "U+07C1", "U+07C2", "U+07C3", "U+07C4", "U+07C5", "U+07C6", "U+07C7", "U+07C8", "U+07C9">>,
       <<"U+0966", "U+0967", "U+0968", "U+0969", "U+096A", "U+096B", "U+096C", "U+096D", "U+096E", "U+096F">>,
       <<"U+09E6", "U+09E7", "U+09E8", "U+09E9", "U+09EA", "U+09EB", "U+09EC", "U+09ED", "U+09EE", "U+09EF">>,
       <<"U+0A66", "U+0A67", "U+0A68", "U+0A69", "U+0A6A", "U+0A6B", "U+0A6C", "U+0A6D", "U+0A6E", "U+0A6F">>,
       <<"U+0AE6", "U+0AE7", "U+0AE8", "U+0AE9", "U+0AEA", "U+0AEB", "U+0AEC", "U+0AED", "U+0AEE", "U+0AEF">>,
       <<"U+0B66", "U+0B67", "U+0B68", "U+0B69", "U+0B6A", "U+0B6B", "U+0B6C", "U+0B6D", "U+0B6E", "U+0B6F">>,
       <<"U+0BE6", "U+0BE7", "U+0BE8", "U+0BE9", "U+0BEA", "U+0BEB", "U+0BEC", "U+0BED", "U+0BEE", "U+0BEF">>,
       <<"U+0C66", "U+0C67", "U+0C68", "U+0C69", "U+0C6A", "U+0C6B", "U+0C6C", "U+0C6D", "U+0C6E", "U+0C6F">>,
       <<"U+0CE6", "U+0CE7", "U+0CE8", "U+0CE9", "U+0CEA", "U+0CEB", "U+0CEC", "U+0CED", "U+0CEE", "U+0CEF">>,
       <<"U+0D66", "U+0D67", "U+0D68", "U+0D69", "U+0D6A", "U+0D6B", "U+0D6C", "U+0D6D", "U+0D6E", "U+0D6F">>,
       <<"U+0DE6", "U+0DE7", "U+0DE8", "U+0DE9", "U+0DEA", "U+0DEB", "U+0DEC", "U+0DED", "U+0DEE", "U+0DEF">>,
       <<"U+0E50", "U+0E51", "U+0E52", "U+0E53", "U+0E54", "U+0E55", "U+0E56", "U+0E57", "U+0E58", "U+0E59">>,
       <<"U+0ED0", "U+0ED1", "U+0ED2", "U+0ED3", "U+0ED4", "U+0ED5", "U+0ED6", "U+0ED7", "U+0ED8", "U+0ED9">>,
       <<"U+0F20", "U+0F21", "U+0F22", "U+0F23", "U+0F24", "U+0F25", "U+0F26", "U+0F27", "U+0F28", "U+0F29">>,
       <<"U+1040", "U+1041", "U+1042", "U+1043", "U+1044", "U+1045", "U+1046", "U+1047", "U+1048", "U+1049">>,
       <<"U+1090", "U+1091", "U+1092", "U+1093", "U+1094", "U+1095", "U+1096", "U+1097", "U+1098", "U+1099">>,
       <<"U+17E0", "U+17E1", "U+17E2", "U+17E3", "U+17E4", "U+17E5", "U+17E6", "U+17E7", "U+17E8", "U+17E9">>,
       <<"U+1810", "U+1811", "U+1812", "U+1813", "U+1814", "U+1815", "U+1816", "U+1817", "U+1818", "U+1819">>,
       <<"U+1946", "U+1947", "U+1948", "U+1949", "U+194A", "U+194B", "U+194C", "U+194D", "U+194E", "U+194F">>,
       <<"U+19D0", "U+19D1", "U+19D2", "U+19D3", "U+19D4", "U+19D5", "U+19D6", "U+19D7", "U+19D8", "U+19D9">>,
       <<"U+1A80", "U+1A81", "U+1A82", "U+1A83", "U+1A84", "U+1A85", "U+1A86", "U+1A87", "U+1A88", "U+1A89">>,
       <<"U+1A90", "U+1A91", "U+1A92", "U+1A93", "U+1A94", "U+1A95", "U+1A96", "U+1A97", "U+1A98", "U+1A99">>,
       <<"U+1B50", "U+1B51", "U+1B52", "U+1B53", "U+1B54", "U+1B55", "U+1B56", "U+1B57", "U+1B58", "U+1B59">>,
       <<"U+1BB0", "U+1BB1", "U+1BB2", "U+1BB3", "U+1BB4", "U+1BB5", "U+1BB6", "U+1BB7", "U+1BB8", "U+1BB9">>,
       <<"U+1C40", "U+1C41", "U+1C42", "U+1C43", "U+1C44", "U+1C45", "U+1C46", "U+1C47", "U+1C48", "U+1C49">>,
       <<"U+1C50", "U+1C51", "U+1C52", "U+1C53", "U+1C54", "U+1C55", "U+1C56", "U+1C57", "U+1C58", "U+1C59">>,
       <<"U+A620", "U+A621", "U+A622", "U+A623", "U+A624", "U+A625", "U+A626", "U+A627", "U+A628", "U+A629">>,
       <<"U+A8D0", "U+A8D1", "U+A8D2", "U+A8D3", "U+A8D4", "U+A8D5", "U+A8D6", "U+A8D7", "U+A8D8", "U+A8D9">>,
       <<"U+A900", "U+A901", "U+A902", "U+A903", "U+A904", "U+A905", "U+A906", "U+A907", "U+A908", "U+A909">>,
       <<"U+A9D0", "U+A9D1", "U+A9D2", "U+A9D3", "U+A9D4", "U+A9D5", "U+A9D6", "U+A9D7", "U+A9D8", "U+A9D9">>,
       <<"U+A9F0", "U+A9F1", "U+A9F2", "U+A9F3", "U+A9F4", "U+A9F5", "U+A9F6", "U+A9F7", "U+A9F8", "U+A9F9">>,
       <<"U+AA50", "U+AA51", "U+AA52", "U+AA53", "U+AA54", "U+AA55", "U+AA56", "U+AA57", "U+AA58", "U+AA59">>,
       <<"U+ABF0", "U+ABF1", "U+ABF2", "U+ABF3", "U+ABF4", "U+ABF5", "U+ABF6", "U+ABF7", "U+ABF8", "U+ABF9">>,
       <<"U+FF10", "U+FF11", "U+FF12", "U+FF13", "U+FF14", "U+FF15", "U+FF16", "U+FF17", "U+FF18", "U+FF19">>,
       <<"U+104A0", "U+104A1", "U+104A2", "U+104A3", "U+104A4", "U+104A5", "U+104A6", "U+104A7", "U+104A8", "U+104A9">>,
       <<"U+10D30", "U+10D31", "U+10D32", "U+10D33", "U+10D34", "U+10D35", "U+10D36", "U+10D37", "U+10D38", "U+10D39">>,
       <<"U+11066", "U+11067", "U+11068", "U+11069", "U+1106A", "U+1106B", "U+1106C", "U+1106D", "U+1106E", "U+1106F">>,
       <<"U+110F0", "U+110F1", "U+110F2", "U+110F3", "U+110F4", "U+110F5", "U+110F6", "U+110F7", "U+110F8", "U+110F9">>,
       <<"U+11136", "U+11137", "U+11138", "U+11139", "U+1113A", "U+1113B", "U+1113C", "U+1113D", "U+1113E", "U+1113F">>,
       <<"U+111D0", "U+111D1", "U+111D2", "U+111D3", "U+111D4", "U+111D5", "U+111D6", "U+111D7", "U+111D8", "U+111D9">>,
       <<"U+112F0", "U+112F1", "U+112F2", "U+112F3", "U+112F4", "U+112F5", "U+112F6", "U+112F7", "U+112F8", "U+112F9">>,
       <<"U+11450", "U+11451", "U+11452", "U+11453", "U+11454", "U+11455", "U+11456", "U+11457", "U+11458", "U+11459">>,
       <<"U+114D0", "U+114D1", "U+114D2", "U+114D3", "U+114D4", "U+114D5", "U+114D6", "U+114D7", "U+114D8", "U+114D9">>,
       <<"U+11650", "U+11651", "U+11652", "U+11653", "U+11654", "U+11655", "U+11656", "U+11657", "U+11658", "U+11659">>,
       <<"U+116C0", "U+116C1", "U+116C2", "U+116C3", "U+116C4", "U+116C5", "U+116C6", "U+116C7", "U+116C8", "U+116C9">>,
       <<"U+11730", "U+11731", "U+11732", "U+11733", "U+11734", "U+11735", "U+11736", "U+11737", "U+11738", "U+11739">>,
       <<"U+118E0", "U+118E1", "U+118E2", "U+118E3", "U+118E4", "U+118E5", "U+118E6", "U+118E7", "U+118E8", "U+118E9">>,
       <<"U+11950", "U+11951", "U+11952", "U+11953", "U+11954", "U+11955", "U+11956", "U+11957", "U+11958", "U+11959">>,
       <<"U+11C50", "U+11C51", "U+11C52", "U+11C53", "U+11C54", "U+11C55", "U+11C56", "U+11C57", "U+11C58", "U+11C59">>,
       <<"U+11D50", "U+11D51", "U+11D52", "U+11D53", "U+11D54", "U+11D55", "U+11D56", "U+11D57", "U+11D58", "U+11D59">>,
       <<"U+11DA0", "U+11DA1", "U+11DA2", "U+11DA3", "U+11DA4", "U+11DA5", "U+11DA6", "U+11DA7", "U+11DA8", "U+11DA9">>,
       <<"U+16A60", "U+16A61", "U+16A62", "U+16A63", "U+16A64", "U+16A65", "U+16A66", "U+16A67", "U+16A68", "U+16A69">>,
       <<"U+16AC0", "U+16AC1", "U+16AC2", "U+16AC3", "U+16AC4", "U+16AC5", "U+16AC6", "U+16AC7", "U+16AC8", "U+16AC9">>,
       <<"U+16B50", "U+16B51", "U+16B52", "U+16B53", "U+16B54", "U+16B55", "U+16B56", "U+16B57", "U+16B58", "U+16B59">>,
       <<"U+1D7CE", "U+1D7CF", "U+1D7D0", "U+1D7D1", "U+1D7D2", "U+1D7D3", "U+1D7D4", "U+1D7D5", "U+1D7D6", "U+1D7D7">>,
       <<"U+1D7D8", "U+1D7D9", "U+1D7DA", "U+1D7DB", "U+1D7DC", "U+1D7DD", "U+1D7DE", "U+1D7DF", "U+1D7E0", "U+1D7E1">>,
       <<"U+1D7E2", "U+1D7E3", "U+1D7E4", "U+1D7E5", "U+1D7E6", "U+1D7E7", "U+1D7E8", "U+1D7E9", "U+1D7EA", "U+1D7EB">>,
       <<"U+1D7EC", "U+1D7ED", "U+1D7EE", "U+1D7EF", "U+1D7F0", "U+1D7F1", "U+1D7F2", "U+1D7F3", "U+1D7F4", "U+1D7F5">>,
       <<"U+1D7F6", "U+1D7F7", "U+1D7F8", "U+1D7F9", "U+1D7FA", "U+1D7FB", "U+1D7FC", "U+1D7FD", "U+1D7FE", "U+1D7FF">>,
       <<"U+1E140", "U+1E141", "U+1E142", "U+1E143", "U+1E144", "U+1E145", "U+1E146", "U+1E147", "U+1E148", "U+1E149">>,
       <<"U+1E2F0", "U+1E2F1", "U+1E2F2", "U+1E2F3", "U+1E2F4", "U+1E2F5", "U+1E2F6", "U+1E2F7", "U+1E2F8", "U+1E2F9">>,
       <<"U+1E950", "U+1E951", "U+1E952", "U+1E953", "U+1E954", "U+1E955", "U+1E956", "U+1E957", "U+1E958", "U+1E959">>,
       <<"U+1FBF0", "U+1FBF1", "U+1FBF2", "U+1FBF3", "U+1FBF4", "U+1FBF5", "U+1FBF6", "U+1FBF7", "U+1FBF8", "U+1FBF9">>
    >>

UnicodeDigitChars ==
    {UnicodeDigits[r][d] : r \in 1..Len(UnicodeDigits), d \in 1..10}

\* The value int() gives one digit character: 0..9, a..f and A..F as in
\* ASCII, a Unicode decimal digit its decimal value; 99 for a character
\* that is no digit.
DigitValue(c) ==
    IF \E i \in 1..16 : LowerHex[i] = c
    THEN (CHOOSE i \in 1..16 : LowerHex[i] = c) - 1
    ELSE IF \E i \in 1..16 : UpperHex[i] = c
    THEN (CHOOSE i \in 1..16 : UpperHex[i] = c) - 1
    ELSE IF c \in UnicodeDigitChars
    THEN (CHOOSE d \in 1..10 : \E r \in 1..Len(UnicodeDigits) : UnicodeDigits[r][d] = c) - 1
    ELSE 99

RECURSIVE DigitsToInt(_, _)
DigitsToInt(s, base) ==
    IF s = <<>> THEN 0
    ELSE DigitsToInt(SubSeq(s, 1, Len(s) - 1), base) * base + DigitValue(s[Len(s)])

\* The characters str.strip() removes: those str.isspace() holds for.
Whitespace ==
    {
      "\t", "\n", "U+000B", "\f", "\r", "U+001C", "U+001D", "U+001E",
      "U+001F", " ", "U+0085", "U+00A0", "U+1680", "U+2000", "U+2001",
      "U+2002", "U+2003", "U+2004", "U+2005", "U+2006", "U+2007", "U+2008",
      "U+2009", "U+200A", "U+2028", "U+2029", "U+202F", "U+205F", "U+3000"
    }

\* The characters int() skips around a literal: the whitespace above
\* without the separators U+001C .. U+001F.
IntWhitespace == Whitespace \ {"U+001C", "U+001D", "U+001E", "U+001F"}

\* s without the characters of chars at its two ends
RECURSIVE strip_chars(_, _)
strip_chars(s, chars) ==
    IF s = <<>> THEN s
    ELSE IF s[1] \in chars THEN strip_chars(Tail(s), chars)
    ELSE IF s[Len(s)] \in chars THEN strip_chars(SubSeq(s, 1, Len(s) - 1), chars)
    ELSE s

\* s.strip()
strip(s) == strip_chars(s, Whitespace)

\* s without its "_" characters
RECURSIVE without_underscores(_)
without_underscores(s) ==
    IF s = <<>> THEN s
    ELSE IF s[1] = "_" THEN without_underscores(Tail(s))
    ELSE <<s[1]>> \o without_underscores(Tail(s))

\* int(s, base) for base 2 and 16: whitespace around the literal is dropped,
\* then come an optional sign, an optional base prefix (0b, 0x; one "_" may
\* follow it) and digits of the base with single "_" between them, where a
\* Unicode decimal digit counts as the ASCII digit of its value.  Any other
\* string is a ValueError.
int_signed(t) == t # <<>> /\ t[1] \in {"+", "-"}

int_prefixed(u, base) ==
    /\ Len(u) >= 2
    /\ DigitValue(u[1]) = 0
    /\ \/ base = 16 /\ u[2] \in {"x", "X"}
       \/ base = 2 /\ u[2] \in {"b", "B"}

\* The digits of the literal t: what follows its sign and its base prefix.
int_digits(t, base) ==
    LET u == IF int_signed(t) THEN Tail(t) ELSE t
    IN  IF ~int_prefixed(u, base) THEN u
        ELSE IF Len(u) >= 3 /\ u[3] = "_" THEN SubSeq(u, 4, Len(u))
        ELSE SubSeq(u, 3, Len(u))

int_well_formed(v, base) ==
    /\ v # <<>>
    /\ v[1] # "_"
    /\ v[Len(v)] # "_"
    /\ \A i \in 1..Len(v) : v[i] = "_" \/ DigitValue(v[i]) < base
    /\ \A i \in 1..(Len(v) - 1) : ~(v[i] = "_" /\ v[i + 1] = "_")

py_int(s, base) ==
    LET t == strip_chars(s, IntWhitespace)
        v == int_digits(t, base)
        magnitude == DigitsToInt(without_underscores(v), base)
    IN  IF ~int_well_formed(v, base) THEN Raise("ValueError")
        ELSE Return(IF t[1] = "-" THEN 0 - magnitude ELSE magnitude)

RECURSIVE IntToDigits(_, _)
IntToDigits(n, base) ==
    IF n < base THEN <<LowerHex[n + 1]>>
    ELSE Append(IntToDigits(n \div base, base), LowerHex[(n % base) + 1])

\* bin(n)[2:] and hex(n)[2:]: no leading zeros, lower case.  The slice cuts
\* "0b" off a number >= 0 and "-0" off a negative one, whose "b" or "x" stays.
py_bin(n) == IF n < 0 THEN <<"b">> \o IntToDigits(0 - n, 2) ELSE IntToDigits(n, 2)
py_hex(n) == IF n < 0 THEN <<"x">> \o IntToDigits(0 - n, 16) ELSE IntToDigits(n, 16)

\* s.zfill(width): the zeros go after a leading sign
zfill(s, width) ==
    IF Len(s) >= width THEN s
    ELSE LET pad == [i \in 1..(width - Len(s)) |-> "0"]
         IN  IF s # <<>> /\ s[1] \in {"+", "-"}
             THEN <<s[1]>> \o pad \o Tail(s)
             ELSE pad \o s

\* s[:n]
py_prefix(s, n) ==
    IF n >= 0 THEN SubSeq(s, 1, IF n < Len(s) THEN n ELSE Len(s))
    ELSE SubSeq(s, 1, IF Len(s) + n > 0 THEN Len(s) + n ELSE 0)

\* s.count('1')
count_ones(s) == Cardinality({i \in 1..Len(s) : s[i] = "1"})

----------------------------------------------------------------------------
(* pufchallenge.py *)

PBKDF2_ITERATIONS == 10000
PBKDF2_SALT == "ESP32-SRAM-PUF-Auth-v1"

\* hex_to_binary without the zfill: the leading zero bits are lost.
hex_to_binary_unpadded(hex_str) ==
    LET n == py_int(hex_str, 16)
    IN  IF n.exc # "none" THEN n ELSE Return(py_bin(n.val))

hex_to_binary(hex_str) ==
    LET n == py_int(hex_str, 16)
    IN  IF n.exc # "none" THEN n
        ELSE Return(zfill(py_bin(n.val), Len(hex_str) * 4))

\* file.readline().strip(): the first line, "" for an empty file
get_first_measurement(f) ==
    IF f = <<>> THEN <<>> ELSE strip(f[1])

\* [line.strip() for line in file if line.strip()]
RECURSIVE read_hex_codes(_)
read_hex_codes(f) ==
    IF f = <<>> THEN <<>>
    ELSE IF strip(f[1]) # <<>> THEN <<strip(f[1])>> \o read_hex_codes(Tail(f))
    ELSE read_hex_codes(Tail(f))

min_len(codes) ==
    CHOOSE n \in {Len(codes[i]) : i \in 1..Len(codes)} :
        \A i \in 1..Len(codes) : n <= Len(codes[i])

\* bit_changes overwritten by every pair: only the last pair counts.
bit_changes_last_pair(binary_codes, i) ==
    [bit_pos \in 1..Len(binary_codes[1]) |->
        IF i > 0 /\ binary_codes[i][bit_pos] # binary_codes[i + 1][bit_pos]
        THEN 1 ELSE 0]

\* bit_changes toggled, not set, by every differing pair.
RECURSIVE bit_changes_toggle(_, _)
bit_changes_toggle(binary_codes, i) ==
    IF i = 0 THEN [bit_pos \in 1..Len(binary_codes[1]) |-> 0]
    ELSE LET before == bit_changes_toggle(binary_codes, i - 1)
         IN  [bit_pos \in 1..Len(binary_codes[i]) |->
                 IF binary_codes[i][bit_pos] # binary_codes[i + 1][bit_pos]
                 THEN 1 - before[bit_pos] ELSE before[bit_pos]]

\* The loop of lines 59-62 after the pairs (1,2) .. (i,i+1): bit_changes.
RECURSIVE bit_changes_after(_, _)
bit_changes_after(binary_codes, i) ==
    IF i = 0 THEN [bit_pos \in 1..Len(binary_codes[1]) |-> 0]
    ELSE LET before == bit_changes_after(binary_codes, i - 1)
         IN  [bit_pos \in 1..Len(binary_codes[i]) |->
                 IF binary_codes[i][bit_pos] # binary_codes[i + 1][bit_pos]
                 THEN 1 ELSE before[bit_pos]]

\* find_stable_bits with the outer loop one pair short: range(len - 2).
find_stable_bits_skip_last(codes) ==
    IF Len(codes) < 2 THEN Raise("ValueError")
    ELSE LET conv == [i \in 1..Len(codes) |-> hex_to_binary(codes[i])]
         IN  IF \E i \in 1..Len(codes) : conv[i].exc # "none" THEN Raise("ValueError")
             ELSE LET full == [i \in 1..Len(codes) |-> conv[i].val]
                      min_length == min_len(full)
                      binary_codes == [i \in 1..Len(codes) |-> py_prefix(full[i], min_length)]
                      bit_changes == bit_changes_after(binary_codes, Len(codes) - 2)
                  IN  Return([p \in 1..Len(bit_changes) |->
                                 IF bit_changes[p] = 0 THEN "1" ELSE "0"])

find_stable_bits(codes) ==
    IF Len(codes) < 2 THEN Raise("ValueError")
    ELSE LET conv == [i \in 1..Len(codes) |-> hex_to_binary(codes[i])]
         IN  IF \E i \in 1..Len(codes) : conv[i].exc # "none" THEN Raise("ValueError")
             ELSE LET full == [i \in 1..Len(codes) |-> conv[i].val]
                      min_length == min_len(full)
                      binary_codes == [i \in 1..Len(codes) |-> py_prefix(full[i], min_length)]
                      bit_changes == bit_changes_after(binary_codes, Len(codes) - 1)
                  IN  Return([p \in 1..Len(bit_changes) |->
                                 IF bit_changes[p] = 0 THEN "1" ELSE "0"])

\* Lines 74-78: the reference bits at the positions the challenge flags, in
\* index order (positions i..len-1 of the challenge, 1-based here).
RECURSIVE extracted_bits_from(_, _, _)
extracted_bits_from(chal, ram, i) ==
    IF i > Len(chal) THEN <<>>
    ELSE IF chal[i] = "1" THEN <<ram[i]>> \o extracted_bits_from(chal, ram, i + 1)
    ELSE extracted_bits_from(chal, ram, i + 1)

\* Lines 81-84: bytearray(int(extracted_bits[i:i+8], 2) for i in
\* range(0, len, 8)); the first group int() refuses, or whose value is no
\* byte, raises ValueError.
RECURSIVE pack_bytes(_)
pack_bytes(bits) ==
    IF bits = <<>> THEN Return(<<>>)
    ELSE LET byte == py_int(py_prefix(bits, 8), 2)
         IN  IF byte.exc # "none" THEN byte
             ELSE IF byte.val < 0 \/ byte.val > 255 THEN Raise("ValueError")
             ELSE LET rest == pack_bytes(SubSeq(bits, 9, Len(bits)))
                  IN  IF rest.exc # "none" THEN rest
                      ELSE Return(<<byte.val>> \o rest.val)

extract_bits_from_sram_to_bytearray(chal, ram) ==
    IF \E i \in 1..Len(chal) : chal[i] = "1" /\ i > Len(ram)
    THEN Raise("IndexError")
    ELSE pack_bytes(extracted_bits_from(chal, ram, 1))

\* pbkdf2_hmac('sha256', password, PBKDF2_SALT, PBKDF2_ITERATIONS, dklen=32),
\* kept as the call it is: the digest is a function of exactly these.
pbkdf2_hmac(password) ==
    [hash_name |-> "sha256", password |-> password, salt |-> PBKDF2_SALT,
     iterations |-> PBKDF2_ITERATIONS, dklen |-> 32]

\* Line 159: hex(int(binary_challenge, 2))[2:].zfill(len(binary_challenge) // 4)
encode_challenge(bits) ==
    LET n == py_int(bits, 2)
    IN  IF n.exc # "none" THEN n
        ELSE Return(zfill(py_hex(n.val), Len(bits) \div 4))

----------------------------------------------------------------------------
(* main(): one run of the tool *)

\* The input files: up to MaxMixedLines lines of the whole pool, or more
\* lines, up to MaxLines, of the plain ones.
Files ==
    UNION {[1..n -> LinePool] : n \in 0..MaxMixedLines}
    \cup UNION {[1..n -> PlainLinePool] : n \in (MaxMixedLines + 1)..MaxLines}

\* What open() and the decoding of the file as text can raise (line 116, and
\* again line 140): no such file, a directory, a path through something that
\* is no directory, no permission to read, any other failure of the operating
\* system, bytes that are no UTF-8.
OpenErrors ==
    {"FileNotFoundError", "IsADirectoryError", "NotADirectoryError",
     "PermissionError", "OSError", "UnicodeDecodeError"}

\* get_first_measurement opens the input a second time (line 140, after
\* read_hex_codes closed it at line 116).  What it finds in place of the file
\* read first: nothing (the file was emptied, or the input is a pipe that is
\* at its end), or a file with another first line (here one of 4 bits, which
\* a challenge of more than 4 bits can point beyond).
ChangedFiles == {<<>>, << <<"D">> >>}

\* What a print() raises when the write to stdout fails (the file system is
\* full or the file may not grow; the reader of the pipe is gone).  A print
\* has completed when it has returned: with an unbuffered or line-buffered
\* stdout it has then been written; with a block-buffered stdout every print
\* of a run completes, and the failure comes up when the interpreter flushes
\* at exit, after main() has returned.
StdoutErrors == {"OSError", "BrokenPipeError"}

\* Line 115 prints args.input, which stdout may also be unable to encode.
PathPrintErrors == StdoutErrors \cup {"UnicodeEncodeError"}

RunIdle ==
    /\ file = <<>>
    /\ open_error = "none"
    /\ reopen_file = <<>>
    /\ reopen_error = "not opened"
    /\ challenge_size = 0
    /\ verbose = FALSE
    /\ debug_out = <<>>
    /\ pc = "idle"
    /\ hex_codes = <<>>
    /\ stable_bits = <<>>
    /\ warned = FALSE
    /\ binary_challenge = <<>>
    /\ ram_buffer_binary = <<>>
    /\ extracted_bytearray = <<>>
    /\ pbkdf2_hash = <<>>
    /\ output = <<>>
    /\ stdout_error = "none"
    /\ error = "none"
    /\ done_steps = <<>>

ExIdle == ex_challenge = <<>> /\ ex_reference = <<>> /\ ex_result = Raise("not called")
CdIdle == cd_hex = <<>> /\ cd_result = Raise("not called")
StIdle == st_codes = <<>> /\ st_mask = Raise("not called")

Init ==
    /\ \/ open_error = "none" /\ file \in Files
       \/ open_error \in OpenErrors /\ file = <<>>
    /\ reopen_file = <<>>
    /\ reopen_error = "not opened"
    /\ challenge_size \in 0..MaxSize
    /\ verbose \in BOOLEAN
    /\ debug_out = <<>>
    /\ pc = "ReadInputs"
    /\ hex_codes = <<>>
    /\ stable_bits = <<>>
    /\ warned = FALSE
    /\ binary_challenge = <<>>
    /\ ram_buffer_binary = <<>>
    /\ extracted_bytearray = <<>>
    /\ pbkdf2_hash = <<>>
    /\ output = <<>>
    /\ stdout_error = "none"
    /\ error = "none"
    /\ done_steps = <<>>
    /\ ExIdle
    /\ CdIdle
    /\ StIdle

\* An exception (or return 1) ends the run: nothing else is assigned.
Abort(e) ==
    /\ pc' = "failed"
    /\ error' = e

\* A print raises e.
PrintFails(e) ==
    /\ Abort(e)
    /\ stdout_error' = e

\* Lines 114-121: the print of line 115, the reading of line 116, the print
\* of line 117 and, with fewer than 2 measurements, that of line 120.
ReadInputs ==
    /\ pc = "ReadInputs"
    /\ \/ /\ \E e \in PathPrintErrors : PrintFails(e)
          /\ UNCHANGED <<hex_codes, done_steps>>
       \/ /\ open_error # "none"
          /\ Abort(open_error)
          /\ UNCHANGED <<hex_codes, stdout_error, done_steps>>
       \/ /\ open_error = "none"
          /\ hex_codes' = read_hex_codes(file)
          /\ \/ /\ \E e \in StdoutErrors : PrintFails(e)
                /\ UNCHANGED done_steps
             \/ /\ UNCHANGED stdout_error
                /\ IF Len(hex_codes') < 2
                   THEN Abort("InsufficientMeasurements") /\ UNCHANGED done_steps
                   ELSE /\ pc' = "AnalyzeStability"
                        /\ done_steps' = Append(done_steps, "ReadInputs")
                        /\ UNCHANGED error
    /\ UNCHANGED <<file, open_error, reopen_file, reopen_error, challenge_size, verbose,
                   stable_bits, warned, binary_challenge, ram_buffer_binary,
                   extracted_bytearray, pbkdf2_hash, output, debug_out>>
    /\ UNCHANGED <<ex_vars, cd_vars, st_vars>>

\* Lines 123-130: the print of line 124, the analysis, the print of line 130.
AnalyzeStability ==
    /\ pc = "AnalyzeStability"
    /\ \/ /\ \E e \in StdoutErrors : PrintFails(e)
          /\ UNCHANGED <<stable_bits, done_steps>>
       \/ LET r == find_stable_bits(hex_codes)
          IN  IF r.exc # "none"
              THEN Abort(r.exc) /\ UNCHANGED <<stable_bits, stdout_error, done_steps>>
              ELSE /\ stable_bits' = r.val
                   /\ \/ /\ \E e \in StdoutErrors : PrintFails(e)
                         /\ UNCHANGED done_steps
                      \/ /\ pc' = "SelectChallenge"
                         /\ done_steps' = Append(done_steps, "AnalyzeStability")
                         /\ UNCHANGED <<stdout_error, error>>
    /\ UNCHANGED <<file, open_error, reopen_file, reopen_error, challenge_size, verbose,
                   hex_codes, warned, binary_challenge, ram_buffer_binary,
                   extracted_bytearray, pbkdf2_hash, output, debug_out>>
    /\ UNCHANGED <<ex_vars, cd_vars, st_vars>>

\* Lines 132-137: the two prints of the warning, then the cut of the mask.
SelectChallenge ==
    /\ pc = "SelectChallenge"
    /\ \/ /\ count_ones(stable_bits) < challenge_size
          /\ \E e \in StdoutErrors : PrintFails(e)
          /\ warned' \in BOOLEAN    \* line 134 failed, or line 133 already
          /\ UNCHANGED <<binary_challenge, done_steps>>
       \/ /\ warned' = (count_ones(stable_bits) < challenge_size)
          /\ binary_challenge' = py_prefix(stable_bits, challenge_size)
          /\ pc' = "ExtractMaterial"
          /\ done_steps' = Append(done_steps, "SelectChallenge")
          /\ UNCHANGED <<stdout_error, error>>
    /\ UNCHANGED <<file, open_error, reopen_file, reopen_error, challenge_size, verbose,
                   hex_codes, stable_bits, ram_buffer_binary, extracted_bytearray,
                   pbkdf2_hash, output, debug_out>>
    /\ UNCHANGED <<ex_vars, cd_vars, st_vars>>

\* format(byte, '08b') and '{:02X}'.format(byte), joined over the bytes
RECURSIVE join_bin(_)
join_bin(material) ==
    IF material = <<>> THEN <<>>
    ELSE zfill(py_bin(material[1]), 8) \o join_bin(Tail(material))

RECURSIVE join_hex(_)
join_hex(material) ==
    IF material = <<>> THEN <<>>
    ELSE <<UpperHex[(material[1] \div 16) + 1], UpperHex[(material[1] % 16) + 1]>>
         \o join_hex(Tail(material))

\* Lines 143-146: what -v prints once the material is extracted.
debug_prints(chal, material) ==
    << [kind |-> "challenge_binary", value |-> chal],
       [kind |-> "extracted_bits", value |-> join_bin(material)],
       [kind |-> "extracted_bytes_hex", value |-> join_hex(material)] >>

\* PBKDF2_SALT.hex()
PBKDF2_SALT_HEX == "45535033322d5352414d2d5055462d417574682d7631"

\* Lines 151-156: what -v prints once the token is derived.
debug_pbkdf2 ==
    << [kind |-> "pbkdf2_configuration", value |-> ""],
       [kind |-> "algorithm", value |-> "HMAC-SHA256"],
       [kind |-> "iterations", value |-> PBKDF2_ITERATIONS],
       [kind |-> "salt", value |-> PBKDF2_SALT_HEX],
       [kind |-> "key_length", value |-> 32] >>

\* Lines 139-146.  Line 140 reads the input again: the second open() can
\* raise, and the file can have changed since line 116 read it.  Under -v
\* each of the three prints of lines 144-146 can fail.
ExtractMaterial ==
    /\ pc = "ExtractMaterial"
    /\ \/ reopen_error' = "none" /\ reopen_file' \in {file} \cup ChangedFiles
       \/ reopen_error' \in OpenErrors /\ reopen_file' = <<>>
    /\ IF reopen_error' # "none"
       THEN /\ Abort(reopen_error')
            /\ UNCHANGED <<ram_buffer_binary, extracted_bytearray, debug_out,
                            stdout_error, done_steps>>
       ELSE LET ram == hex_to_binary(get_first_measurement(reopen_file'))
            IN  IF ram.exc # "none"
                THEN /\ Abort(ram.exc)
                     /\ UNCHANGED <<ram_buffer_binary, extracted_bytearray, debug_out,
                                     stdout_error, done_steps>>
                ELSE LET r == extract_bits_from_sram_to_bytearray(binary_challenge,
                                                                  ram.val)
                     IN  /\ ram_buffer_binary' = ram.val
                         /\ IF r.exc # "none"
                            THEN Abort(r.exc)
                                 /\ UNCHANGED <<extracted_bytearray, debug_out,
                                                 stdout_error, done_steps>>
                            ELSE /\ extracted_bytearray' = r.val
                                 /\ \/ /\ verbose
                                       /\ \E e \in StdoutErrors : PrintFails(e)
                                       /\ \E k \in 0..2 :
                                             debug_out' = SubSeq(
                                                 debug_prints(binary_challenge, r.val),
                                                 1, k)
                                       /\ UNCHANGED done_steps
                                    \/ /\ debug_out' = IF verbose
                                                        THEN debug_prints(
                                                                 binary_challenge, r.val)
                                                        ELSE debug_out
                                       /\ pc' = "DeriveSecret"
                                       /\ done_steps' = Append(done_steps,
                                                               "ExtractMaterial")
                                       /\ UNCHANGED <<stdout_error, error>>
    /\ UNCHANGED <<file, open_error, challenge_size, verbose, hex_codes, stable_bits, warned,
                   binary_challenge, pbkdf2_hash, output>>
    /\ UNCHANGED <<ex_vars, cd_vars, st_vars>>

\* Lines 148-156: the derivation and, under -v, the five prints of lines
\* 152-156, each of which can fail.
DeriveSecret ==
    /\ pc = "DeriveSecret"
    /\ pbkdf2_hash' = <<pbkdf2_hmac(extracted_bytearray)>>
    /\ \/ /\ verbose
          /\ \E e \in StdoutErrors : PrintFails(e)
          /\ \E k \in 0..4 : debug_out' = debug_out \o SubSeq(debug_pbkdf2, 1, k)
          /\ UNCHANGED done_steps
       \/ /\ debug_out' = IF verbose THEN debug_out \o debug_pbkdf2 ELSE debug_out
          /\ pc' = "Emit"
          /\ done_steps' = Append(done_steps, "DeriveSecret")
          /\ UNCHANGED <<stdout_error, error>>
    /\ UNCHANGED <<file, open_error, reopen_file, reopen_error, challenge_size, verbose,
                   hex_codes, stable_bits, warned, binary_challenge, ram_buffer_binary,
                   extracted_bytearray, output>>
    /\ UNCHANGED <<ex_vars, cd_vars, st_vars>>

\* date.today().isoformat(), kept as the call it is.
today_isoformat == [call |-> "date.today().isoformat()"]

\* What lines 161-179 print, given challenge_hex: the challenge (line 164),
\* the token (line 166), the challenge (line 172) and the token (line 175)
\* of the copy-paste snippets, and the date of registration (line 178).
emit_results(challenge_hex, token) ==
    << [kind |-> "challenge", value |-> challenge_hex],
       [kind |-> "token", value |-> token],
       [kind |-> "challenge", value |-> challenge_hex],
       [kind |-> "token", value |-> token],
       [kind |-> "registered", value |-> today_isoformat] >>

\* Lines 158-181.  Each of the 16 prints of lines 161-179 can fail: the
\* values printed before it stay printed (a print of lines 161-164 leaves
\* none, of 165-166 the challenge, of 167-172 challenge and token, of
\* 174-175 three values, of 176-178 four, of 179 all five).
Emit ==
    /\ pc = "Emit"
    /\ UNCHANGED debug_out
    /\ LET r == encode_challenge(binary_challenge)
       IN  IF r.exc # "none"
           THEN Abort(r.exc) /\ UNCHANGED <<output, stdout_error, done_steps>>
           ELSE \/ /\ \E e \in StdoutErrors : PrintFails(e)
                   /\ \E k \in 0..5 :
                         output' = SubSeq(emit_results(r.val, pbkdf2_hash[1]), 1, k)
                   /\ UNCHANGED done_steps
                \/ /\ output' = emit_results(r.val, pbkdf2_hash[1])
                   /\ pc' = "done"
                   /\ done_steps' = Append(done_steps, "Emit")
                   /\ UNCHANGED <<stdout_error, error>>
    /\ UNCHANGED <<file, open_error, reopen_file, reopen_error, challenge_size, verbose,
                   hex_codes, stable_bits, warned, binary_challenge, ram_buffer_binary,
                   extracted_bytearray, pbkdf2_hash>>
    /\ UNCHANGED <<ex_vars, cd_vars, st_vars>>

Next ==
    \/ ReadInputs
    \/ AnalyzeStability
    \/ SelectChallenge
    \/ ExtractMaterial
    \/ DeriveSecret
    \/ Emit

Spec == Init /\ [][Next]_vars

----------------------------------------------------------------------------
(* A direct call of extract_bits_from_sram_to_bytearray *)

BitStrings(n) == UNION {[1..k -> {"0", "1"}] : k \in 0..n}

InitExtract ==
    /\ RunIdle
    /\ CdIdle
    /\ StIdle
    /\ ex_challenge \in BitStrings(MaxChalLen)
    /\ ex_reference \in {hex_to_binary(h).val : h \in RefPool}
    /\ ex_result = Raise("not called")

ExtractCall ==
    /\ ex_result.exc = "not called"
    /\ ex_result' = extract_bits_from_sram_to_bytearray(ex_challenge, ex_reference)
    /\ UNCHANGED <<ex_challenge, ex_reference, run_vars, cd_vars, st_vars>>

NextExtract == ExtractCall

SpecExtract == InitExtract /\ [][NextExtract]_vars

----------------------------------------------------------------------------
(* The codec round trip: hex_to_binary, then the encoder of line 159 *)

HexStrings(n) == UNION {[1..k -> HexChars] : k \in 0..n}

InitCodec ==
    /\ RunIdle
    /\ ExIdle
    /\ StIdle
    /\ cd_hex \in HexStrings(MaxCodecLen)
    /\ cd_result = Raise("not called")

CodecRoundTrip ==
    /\ cd_result.exc = "not called"
    /\ LET bits == hex_to_binary(cd_hex)
       IN  cd_result' = IF bits.exc # "none" THEN bits ELSE encode_challenge(bits.val)
    /\ UNCHANGED <<cd_hex, run_vars, ex_vars, st_vars>>

NextCodec == CodecRoundTrip

SpecCodec == InitCodec /\ [][NextCodec]_vars

----------------------------------------------------------------------------
(* find_stable_bits on a measurement set that grows by appending *)

\* The well-formed measurements of the line pool.
Measurements ==
    {m \in {strip(l) : l \in LinePool} : m # <<>> /\ \A i \in 1..Len(m) : m[i] \in HexChars}

InitAppend ==
    /\ RunIdle
    /\ ExIdle
    /\ CdIdle
    /\ st_codes \in {ms \in [1..2 -> Measurements] : Len(ms[1]) = Len(ms[2])}
    /\ st_mask = find_stable_bits(st_codes)

\* One more measurement of the same length, and the analysis run again.
AppendMeasurement ==
    /\ Len(st_codes) < MaxMeasurements
    /\ \E m \in Measurements :
          /\ Len(m) = Len(st_codes[1])
          /\ st_codes' = Append(st_codes, m)
    /\ st_mask' = find_stable_bits(st_codes')
    /\ UNCHANGED <<run_vars, ex_vars, cd_vars>>

NextAppend == AppendMeasurement

SpecAppend == InitAppend /\ [][NextAppend]_vars

----------------------------------------------------------------------------
(* Vocabulary of the properties *)

Has(s, x) == \E i \in 1..Len(s) : s[i] = x

IsPrefix(s, t) == Len(s) <= Len(t) /\ s = SubSeq(t, 1, Len(s))

RECURSIVE Pow2(_)
Pow2(n) == IF n = 0 THEN 1 ELSE 2 * Pow2(n - 1)

\* Bit p (1 = most significant bit of the first character) of a hex string.
HexBit(h, p) ==
    (DigitValue(h[((p - 1) \div 4) + 1]) \div Pow2(3 - ((p - 1) % 4))) % 2

ValidHex(h) == h # <<>> /\ \A i \in 1..Len(h) : h[i] \in HexChars

\* The positions a bit string flags, and how many flagged positions
\* precede position i.
Flagged(bits) == {i \in 1..Len(bits) : bits[i] = "1"}
Rank(bits, i) == Cardinality({j \in Flagged(bits) : j < i})

\* The k-th (k >= 1) flagged position of a bit string.
NthFlagged(bits, k) == CHOOSE i \in Flagged(bits) : Rank(bits, i) = k - 1

\* The number that the selected reference bits number first .. first+count-1
\* spell, most significant bit first.
RECURSIVE MsbValue(_, _, _, _)
MsbValue(chal, ref, first, count) ==
    IF count = 0 THEN 0
    ELSE 2 * MsbValue(chal, ref, first, count - 1)
         + (IF ref[NthFlagged(chal, first + count - 1)] = "1" THEN 1 ELSE 0)

ExCalled == ex_result.exc # "not called"

\* s is a bit-sequence
BitSequence(s) == \A i \in 1..Len(s) : s[i] \in {"0", "1"}

CdCalled == cd_result.exc # "not called"

\* Stability analysis has been attempted on at least 2 well-formed
\* measurements, and no print of that step failed.
Analysed ==
    /\ pc \notin {"idle", "ReadInputs", "AnalyzeStability"}
    /\ Has(done_steps, "ReadInputs")
    /\ ~(stdout_error # "none" /\ done_steps = <<"ReadInputs">>)
    /\ Len(hex_codes) >= 2
    /\ \A i \in 1..Len(hex_codes) : ValidHex(hex_codes[i])

EqualLengths == \A i, j \in 1..Len(hex_codes) : Len(hex_codes[i]) = Len(hex_codes[j])

\* Line 140 has not opened the input yet, or it found the file line 116 read.
SameInput ==
    reopen_error = "not opened" \/ (reopen_error = "none" /\ reopen_file = file)

\* No print has failed.
StdoutWorks == stdout_error = "none"

AllSteps == <<"ReadInputs", "AnalyzeStability", "SelectChallenge",
              "ExtractMaterial", "DeriveSecret", "Emit">>

----------------------------------------------------------------------------
(* C1: extraction cardinality and packing *)

\* C1 as stated: for a reference at least as long as the challenge the
\* extraction returns exactly floor(popcount(challenge)/8) bytes, byte k being
\* the MSB-first packing of selected bits 8k .. 8k+7; a trailing group of
\* fewer than 8 selected bits is not emitted.
C1_FloorBytes ==
    (ExCalled /\ BitSequence(ex_reference) /\ Len(ex_reference) >= Len(ex_challenge)) =>
        /\ ex_result.exc = "none"
        /\ Len(ex_result.val) = count_ones(ex_challenge) \div 8
        /\ \A k \in 1..(count_ones(ex_challenge) \div 8) :
              ex_result.val[k] = MsbValue(ex_challenge, ex_reference, 8 * (k - 1) + 1, 8)

----------------------------------------------------------------------------
(* C2: the challenge main() selects *)

\* C2 as stated: whenever the mask has at least N bits set, the challenge
\* flags exactly the N lowest-index positions whose mask bit is 1.
C2_FirstNStable ==
    (Has(done_steps, "SelectChallenge") /\ count_ones(stable_bits) >= challenge_size) =>
        /\ count_ones(binary_challenge) = challenge_size
        /\ Flagged(binary_challenge)
               = {i \in Flagged(stable_bits) : Rank(stable_bits, i) < challenge_size}

----------------------------------------------------------------------------
(* C3: measurements of different lengths *)

\* C3 as stated: when two measurements differ in decoded length, stability
\* analysis fails with a length-mismatch error and nothing is emitted.
C3_LengthMismatchFails ==
    (Analysed /\ ~EqualLengths) =>
        /\ pc = "failed"
        /\ error = "LengthMismatch"
        /\ ~Has(done_steps, "AnalyzeStability")
        /\ output = <<>>

----------------------------------------------------------------------------
(* C4: fewer stable bits than requested *)

\* C4 as stated: when the number of stable bits is smaller than the requested
\* size the run (of an input that is the same file at both opens, with a
\* stdout that takes every print) warns, uses a challenge holding all
\* available stable bits and does not fail.
C4_UsesAllStableBits ==
    (Has(done_steps, "AnalyzeStability") /\ count_ones(stable_bits) < challenge_size
        /\ SameInput /\ StdoutWorks) =>
        /\ Has(done_steps, "SelectChallenge") =>
              (warned /\ Flagged(binary_challenge) = Flagged(stable_bits))
        /\ pc # "failed"

----------------------------------------------------------------------------
(* C5: the stability mask *)

\* C5: for M >= 2 equal-length measurements of L bits find_stable_bits returns
\* a mask of exactly L bits whose bit p is 1 iff measurements i and i+1 have
\* the same bit at p for every consecutive pair.
C5_ConsecutivePairMask ==
    (Analysed /\ EqualLengths) =>
        /\ Has(done_steps, "AnalyzeStability")
        /\ Len(stable_bits) = 4 * Len(hex_codes[1])
        /\ \A p \in 1..Len(stable_bits) :
              (stable_bits[p] = "1") <=>
                  \A i \in 1..(Len(hex_codes) - 1) :
                      HexBit(hex_codes[i], p) = HexBit(hex_codes[i + 1], p)

\* F0, F0, D0 gives 11011111.
C5_Witness ==
    /\ hex_codes = << <<"F","0">>, <<"F","0">>, <<"D","0">> >>
    /\ Has(done_steps, "AnalyzeStability")
    /\ stable_bits = <<"1","1","0","1","1","1","1","1">>

----------------------------------------------------------------------------
(* C6: codec round trip *)

ToLower(c) ==
    CASE c = "A" -> "a" [] c = "B" -> "b" [] c = "C" -> "c"
      [] c = "D" -> "d" [] c = "E" -> "e" [] c = "F" -> "f"
      [] OTHER -> c

\* C6 as stated: for every non-empty string s of hex characters of either
\* case, encoding the bits of hex_to_binary(s) reproduces s exactly.
C6_RoundTripExact ==
    (CdCalled /\ cd_hex # <<>>) => cd_result = Return(cd_hex)

\* C6 amended: encoding the bits of hex_to_binary(s) reproduces s with every
\* letter in lower case, leading zeros kept; so it reproduces s exactly when s
\* holds no upper-case letter.
C6_RoundTripLowerCase ==
    (CdCalled /\ cd_hex # <<>>) =>
        cd_result = Return([i \in 1..Len(cd_hex) |-> ToLower(cd_hex[i])])

\* 0A comes back as 0a.
C6_Witness ==
    /\ cd_hex = <<"0","A">>
    /\ cd_result = Return(<<"0","a">>)

----------------------------------------------------------------------------
(* C7: the emitted challenge *)

\* C7 as stated: for every requested size >= 1 the emitted challenge has
\* len(challenge_bits)/4 characters and decodes, 4 bits per character, to the
\* challenge that was used for the extraction.
C7_EmittedChallengeDecodes ==
    (pc = "done" /\ challenge_size >= 1) =>
        /\ 4 * Len(output[1].value) = Len(binary_challenge)
        /\ hex_to_binary(output[1].value) = Return(binary_challenge)

----------------------------------------------------------------------------
(* C8: the orchestrator is one forward pass *)

\* The steps that completed are the first steps of the pass; results are
\* printed (each twice, with the date of registration) only when all six
\* have completed; a failed run has printed none.
C8_State ==
    /\ IsPrefix(done_steps, AllSteps)
    /\ output # <<>> =>
          /\ Len(output) = 5
          /\ output[1].kind = "challenge"
          /\ output[2].kind = "token"
          /\ output[3] = output[1]
          /\ output[4] = output[2]
          /\ output[5].kind = "registered"
          /\ pc = "done"
          /\ done_steps = AllSteps
    /\ pc = "failed" => (output = <<>> /\ error # "none")
    /\ (pc # "ReadInputs" /\ Len(hex_codes) < 2) =>
          (pc = "failed" /\ done_steps = <<>>)

\* A measurement that is no hex string fails the stability analysis: no
\* later step runs.
C8_MalformedLineFails ==
    (pc \notin {"ReadInputs", "AnalyzeStability"} /\ Len(hex_codes) >= 2
        /\ \E i \in 1..Len(hex_codes) : ~ValidHex(hex_codes[i])) =>
          (pc = "failed" /\ ~Has(done_steps, "AnalyzeStability"))

C8_Step ==
    /\ pc \notin {"failed", "done"}
    /\ pc' # "failed" => done_steps' = Append(done_steps, pc)
    /\ pc' = "failed" => (done_steps' = done_steps /\ output' = <<>>)

\* C8 as stated: the steps complete in the order ReadInputs .. Emit; the
\* challenge and the secret are emitted together and only after all six
\* steps; a failed step (fewer than 2 measurements and a malformed hex line
\* included) ends the run, after which no step runs and nothing has been
\* emitted.
C8_SingleForwardPass ==
    [](C8_State /\ C8_MalformedLineFails) /\ [][C8_Step]_vars

----------------------------------------------------------------------------
(* C9: the lengths of challenge and reference *)

\* C9 as stated: whenever challenge and reference differ in length, the
\* extraction fails with a length-mismatch error instead of returning bytes.
C9_RequiresEqualLengths ==
    (ExCalled /\ BitSequence(ex_reference) /\ Len(ex_challenge) # Len(ex_reference)) =>
        ex_result.exc = "LengthMismatch"

----------------------------------------------------------------------------
(* C10: consecutive pairs against all pairs *)

\* The ordered sets of 2..MaxLines well-formed measurements of equal length.
MeasurementSets ==
    {ms \in UNION {[1..n -> {l \in LinePool : ValidHex(l)}] : n \in 2..MaxLines} :
        \A i, j \in 1..Len(ms) : Len(ms[i]) = Len(ms[j])}

\* C10 as stated: the consecutive-pair check is strictly weaker than the
\* all-pairs check: among the ordered sets of equal-length measurements that
\* stability analysis accepts there is one in which a position has different
\* values in two measurements and is marked stable all the same.
C10_MarksDifferingPositionStable ==
    Has(done_steps, "AnalyzeStability") =>
    \E ms \in MeasurementSets :
        LET mask == find_stable_bits(ms).val
        IN  \E p \in 1..Len(mask) :
                /\ mask[p] = "1"
                /\ \E i, j \in 1..Len(ms) : HexBit(ms[i], p) # HexBit(ms[j], p)

\* C10 amended: on equal-length measurements the consecutive-pair check agrees
\* with the all-pairs check: a position is marked stable iff all measurements,
\* adjacent or not, have the same bit there.
C10_SameAsAllPairs ==
    (Analysed /\ EqualLengths /\ Has(done_steps, "AnalyzeStability")) =>
        \A p \in 1..Len(stable_bits) :
            (stable_bits[p] = "1") <=>
                \A i, j \in 1..Len(hex_codes) :
                    HexBit(hex_codes[i], p) = HexBit(hex_codes[j], p)

\* Three measurements, the first and the third differ at a position, and the
\* position is marked unstable.
C10_Witness ==
    /\ Has(done_steps, "AnalyzeStability")
    /\ Len(hex_codes) = 3
    /\ EqualLengths
    /\ \E p \in 1..Len(stable_bits) :
          /\ HexBit(hex_codes[1], p) # HexBit(hex_codes[3], p)
          /\ stable_bits[p] = "0"

----------------------------------------------------------------------------
(* C11: stability monotonicity *)

C11_Step ==
    /\ st_mask'.exc = "none"
    /\ Len(st_mask'.val) = Len(st_mask.val)
    /\ \A p \in 1..Len(st_mask.val) :
          /\ st_mask.val[p] = "0" => st_mask'.val[p] = "0"
          /\ (st_mask.val[p] = "1" /\ st_mask'.val[p] = "0") =>
                HexBit(st_codes[Len(st_codes)], p) # HexBit(st_codes'[Len(st_codes')], p)

C11_NeverGrows ==
    /\ st_mask.exc = "none"
    /\ Flagged(st_mask.val) \subseteq Flagged(find_stable_bits(SubSeq(st_codes, 1, 2)).val)

\* C11: when an equal-length measurement is appended, every position that was
\* marked unstable stays unstable, and a position that was marked stable
\* becomes unstable only if the newly added consecutive pair differs there;
\* so after any sequence of appends the stable positions are among those of
\* the first two measurements.
C11_StabilityMonotone == [](C11_NeverGrows) /\ [][C11_Step]_vars

\* F0, F0 had every position stable; appending D0 made position 2 unstable.
C11_Witness ==
    /\ st_codes = << <<"F","0">>, <<"F","0">>, <<"D","0">> >>
    /\ st_mask = Return(<<"1","1","0","1","1","1","1","1">>)

----------------------------------------------------------------------------
(* C12: the reference measurement *)

\* C12 as stated: for every input file (the same file at both opens) the
\* reference decoded for extraction is the first element of the measurement
\* set that stability analysis ran on (the first non-blank line); so a blank
\* line never fails the decoding of the reference, which would leave no
\* reference at all.
C12_ReferenceIsFirstMeasurement ==
    (Has(done_steps, "SelectChallenge") /\ pc # "ExtractMaterial" /\ SameInput) =>
        ram_buffer_binary = hex_to_binary(hex_codes[1]).val

====
